---- MODULE Spec2Model ----
(***************************************************************************)
(* A model of src/src/index.js (class RidgeMap): sampling of the elevation *)
(* grid (getElevationData, #getData, #rotate), normalisation (#preprocess) *)
(* and the occlusion / water / lake-flatness stages of generate, and the   *)
(* paper.js scope that generate and save of all instances go through.      *)
(*                                                                         *)
(* JavaScript arrays are 0-based, TLA+ sequences are 1-based: source index *)
(* i is index i+1 here.                                                    *)
(***************************************************************************)
EXTENDS Integers, Sequences, FiniteSets, TLC

VARIABLES
    pc,          \* position of the caller / of the async method under way
    viewpoint,   \* this.viewpoint
    tileset,     \* the terrain behind hgt.TileSet
    num,         \* getElevationData's num at the call of #getData
    points,      \* getElevationData's points at the call of #getData
    argNum,      \* num as the caller passed it
    argPoints,   \* points as the caller passed it
    lookups,     \* (i,j) -> arguments the getElevation callback was called with
    colResults,  \* (i,j) -> value colPromises[j] of row i resolved with
    rowResults,  \* i -> value rowPromises[i] resolved with
    data,        \* local `data` of getElevationData, then this._data
    orig,        \* the grid #rotate was first handed (SpecRotate)
    applied,     \* how many times the viewpoint rotation has been applied
    bbox,        \* the constructor's bbox: <<lng1, lat1, lng2, lat2>>
    opts,        \* generate's options: lakeFlatness, verticalRatio, waterNTile
    values,      \* generate's `values`, as #preprocess returned them
    oneMeter,    \* generate's `oneMeter`
    srcPaths,    \* generate's srcPaths (the items of layerSrc)
    layerClip,   \* the children of layerClip
    layerLakeFlatness, \* the children of layerLakeFlatness
    loopI,       \* i of the loop under way in generate (1-based)
    segmentDiff, \* segmentDiff of the layer the lakeFlatness loop handled last
    removals,    \* removals of the layer the lakeFlatness loop handled last
    strokes,     \* the stroked paths generate added to the last layer
    paperProject, \* paper.project of the one imported paper scope
    instPaper,   \* instance -> whether its this._paper is set (to that scope)
    generated,   \* instance -> number of generate calls completed
    written      \* instance -> the scene its last save wrote

sampVars == <<num, points, argNum, argPoints, lookups, colResults, rowResults>>
rotVars == <<orig, applied>>
genVars == <<opts, values, oneMeter, srcPaths, layerClip, layerLakeFlatness, loopI,
             segmentDiff, removals, strokes>>

sceneVars == <<paperProject, instPaper, generated, written>>

vars == <<pc, viewpoint, tileset, bbox, data, sampVars, rotVars, genVars,
          sceneVars>>

----------------------------------------------------------------------------
(* Bounds *)

MaxNum == 2
MaxPoints == 2
MaxCell == 1
MaxLines == 3
MaxSamples == 2
MaxCells == 6
MaxElev == 2

Viewpoints == {"south", "west", "north", "east"}
Terrains == {"sea", "ramp"}

\* a promise not settled yet, and the JavaScript value undefined (elevations
\* of the model are never negative)
Pending == -2
Undefined == -1

\* bounding boxes: as wide as high, and twice as wide as high
Bboxes == {<<0, 0, 1, 1>>, <<0, 0, 2, 1>>}

\* two instances of RidgeMap in one process
Instances == {"A", "B"}

\* no scene: paper.project before any paper.setup, nothing written
NoScene == [owner |-> "none", run |-> 0]

\* no instance has generated or saved
SceneIdle ==
    /\ paperProject = NoScene
    /\ instPaper = [i \in Instances |-> FALSE]
    /\ generated = [i \in Instances |-> 0]
    /\ written = [i \in Instances |-> NoScene]

\* generate has not been called
GenIdle ==
    /\ opts = [lakeFlatness |-> 0, verticalRatio |-> 0, waterNTile |-> 0]
    /\ values = <<>>
    /\ oneMeter = [n |-> 0, d |-> 1]
    /\ srcPaths = <<>>
    /\ layerClip = <<>>
    /\ layerLakeFlatness = <<>>
    /\ loopI = 0
    /\ segmentDiff = <<>>
    /\ removals = <<>>
    /\ strokes = <<>>
    /\ SceneIdle

----------------------------------------------------------------------------
(* Sequence helpers *)

Reverse(s) == [k \in 1..Len(s) |-> s[Len(s) + 1 - k]]

Grids(rows, cols, S) == [1..rows -> [1..cols -> S]]

\* v bound to a name once, as a `const` is, and F applied to it
Eager(v, F(_)) == CHOOSE r \in {F(x) : x \in {v}} : TRUE

\* the rectangular grids of at most MaxLines lines of at most MaxSamples
\* samples, MaxCells samples in all, with elevations in S
BoundedGrids(S) ==
    UNION {Grids(r, c, S) : <<r, c>> \in
             {d \in (1..MaxLines) \X (1..MaxSamples) : d[1] * d[2] <= MaxCells}}

----------------------------------------------------------------------------
(* #rotate: one pass of the loop body,                                     *)
(*   matrix[0].map((_, index) => matrix.map(row => row[index]).reverse())  *)

RotateOnceSquare(matrix) ==
    [index \in 1..Len(matrix) |->
        Reverse([r \in 1..Len(matrix) |->
            IF index <= Len(matrix[r]) THEN matrix[r][index] ELSE Undefined])]

RotateOnce(matrix) ==
    [index \in 1..Len(matrix[1]) |->
        Reverse([r \in 1..Len(matrix) |-> matrix[r][index]])]

RECURSIVE rotate(_, _)
rotate(matrix, n) ==
    IF n <= 0 THEN matrix ELSE rotate(RotateOnce(matrix), n - 1)

numRotations ==
    [v \in Viewpoints |->
        CASE v = "south" -> 0
          [] v = "west"  -> 3
          [] v = "north" -> 2
          [] v = "east"  -> 1]

----------------------------------------------------------------------------
(* getElevationData *)

\* `num, points = points, num;` is a comma expression: it evaluates num,
\* assigns points to itself and evaluates num. Nothing is swapped.
SwapNumPoints(n, p) == <<n, p>>

\* elevation the tile set holds at sample (i, j): row i counted from the
\* pos1 latitude, column j counted from the pos1 longitude
Elevation(t, r, c) ==
    IF t = "sea" THEN 0 ELSE (r - 1) * (MaxPoints + 1) + c

\* resolve(err ? 0 : elevation)
CallbackValuePropagate(err, elevation) == elevation

CallbackValue(err, elevation) == IF err THEN 0 ELSE elevation

Cells == (1..num) \X (1..points)

GetElevationData(n, p) ==
    /\ pc = "constructed"
    /\ argNum' = n
    /\ argPoints' = p
    /\ LET np == IF viewpoint \in {"east", "west"}
                 THEN SwapNumPoints(n, p) ELSE <<n, p>>
       IN /\ num' = np[1]
          /\ points' = np[2]
          /\ lookups' = [c \in (1..np[1]) \X (1..np[2]) |->
                            [fired |-> FALSE, err |-> FALSE, elevation |-> Undefined]]
          /\ colResults' = [i \in 1..np[1] |-> [j \in 1..np[2] |-> Pending]]
          /\ rowResults' = [i \in 1..np[1] |-> <<>>]
    /\ pc' = "getData"
    /\ UNCHANGED <<viewpoint, tileset, bbox, data, rotVars, genVars,
                   sceneVars>>

\* the callback handed to tileset.getElevation for sample (i, j) fires
GetElevationCallback(r, c, err) ==
    /\ pc = "getData"
    /\ <<r, c>> \in Cells
    /\ ~lookups[<<r, c>>].fired
    /\ LET elevation == IF err THEN Undefined ELSE Elevation(tileset, r, c)
       IN /\ lookups' = [lookups EXCEPT ![<<r, c>>] =
                            [fired |-> TRUE, err |-> err, elevation |-> elevation]]
          /\ colResults' = [colResults EXCEPT ![r][c] = CallbackValue(err, elevation)]
    /\ UNCHANGED <<pc, viewpoint, tileset, bbox, num, points, argNum, argPoints,
                   rowResults, data, rotVars, genVars,
                   sceneVars>>

\* Promise.all(colPromises).then(colResults => resolve(colResults))
ColPromisesAll(r) ==
    /\ pc = "getData"
    /\ r \in 1..num
    /\ rowResults[r] = <<>>
    /\ \A c \in 1..points : colResults[r][c] # Pending
    /\ rowResults' = [rowResults EXCEPT ![r] = colResults[r]]
    /\ UNCHANGED <<pc, viewpoint, tileset, bbox, num, points, argNum, argPoints,
                   lookups, colResults, data, rotVars, genVars,
                   sceneVars>>

\* const data = await Promise.all(rowPromises); return data;
GetDataResolve ==
    /\ pc = "getData"
    /\ \A r \in 1..num : rowResults[r] # <<>>
    /\ data' = rowResults
    /\ pc' = "rotate"
    /\ UNCHANGED <<viewpoint, tileset, bbox, sampVars, rotVars, genVars,
                   sceneVars>>

\* data = this.#rotate(data, numRotations[this.viewpoint]); this._data = data;
RotateData ==
    /\ pc = "rotate"
    /\ data' = rotate(data, numRotations[viewpoint])
    /\ pc' = "sampled"
    /\ UNCHANGED <<viewpoint, tileset, bbox, sampVars, rotVars, genVars,
                   sceneVars>>

Init ==
    /\ pc = "constructed"
    /\ viewpoint \in Viewpoints
    /\ tileset \in Terrains
    /\ num = 0
    /\ points = 0
    /\ argNum = 0
    /\ argPoints = 0
    /\ lookups = <<>>
    /\ colResults = <<>>
    /\ rowResults = <<>>
    /\ data = <<>>
    /\ orig = <<>>
    /\ applied = 0
    /\ bbox \in Bboxes
    /\ GenIdle

Next ==
    \/ \E n \in 1..MaxNum, p \in 1..MaxPoints : GetElevationData(n, p)
    \/ \E r \in 1..MaxNum, c \in 1..MaxPoints, err \in BOOLEAN :
          GetElevationCallback(r, c, err)
    \/ \E r \in 1..MaxNum : ColPromisesAll(r)
    \/ GetDataResolve
    \/ RotateData

Spec == Init /\ [][Next]_vars

----------------------------------------------------------------------------
(* #rotate on its own: the viewpoint rotation applied repeatedly to a grid *)

ApplyRotation ==
    /\ pc = "rotating"
    /\ applied < 4
    /\ data' = rotate(data, numRotations[viewpoint])
    /\ applied' = applied + 1
    /\ UNCHANGED <<pc, viewpoint, tileset, bbox, sampVars, orig, genVars,
                   sceneVars>>

InitRotate ==
    /\ pc = "rotating"
    /\ viewpoint \in Viewpoints
    /\ tileset = "sea"
    /\ num = 0
    /\ points = 0
    /\ argNum = 0
    /\ argPoints = 0
    /\ lookups = <<>>
    /\ colResults = <<>>
    /\ rowResults = <<>>
    /\ \E r \in 1..MaxNum, c \in 1..MaxPoints : data \in Grids(r, c, 0..MaxCell)
    /\ orig = data
    /\ applied = 0
    /\ bbox \in Bboxes
    /\ GenIdle

NextRotate == ApplyRotation

SpecRotate == InitRotate /\ [][NextRotate]_vars

----------------------------------------------------------------------------
(* JavaScript numbers.  A number is n/d in lowest terms with d > 0; d = 0   *)
(* stands for the values that are not finite: 1/0 is Infinity, -1/0 is      *)
(* -Infinity and 0/0 is NaN.  Finite arithmetic is exact.                  *)

Abs(a) == IF a < 0 THEN -a ELSE a

Sign(a) == IF a < 0 THEN -1 ELSE IF a > 0 THEN 1 ELSE 0

RECURSIVE GCD(_, _)
GCD(a, b) == IF b = 0 THEN a ELSE GCD(b, a % b)

Num(a, b) ==
    IF b = 0 THEN [n |-> Sign(a), d |-> 0]
    ELSE LET g == GCD(Abs(a), Abs(b))
         IN [n |-> Sign(b) * (a \div g), d |-> Abs(b) \div g]

Int2Num(a) == [n |-> a, d |-> 1]

NaN == [n |-> 0, d |-> 0]

IsNaN(a) == a.d = 0 /\ a.n = 0

IsFinite(a) == a.d # 0

Add(a, b) ==
    IF a.d = 0 /\ b.d = 0 THEN (IF a.n = b.n THEN a ELSE NaN)
    ELSE IF a.d = 0 THEN a
    ELSE IF b.d = 0 THEN b
    ELSE Num(a.n * b.d + b.n * a.d, a.d * b.d)

Neg(a) == [n |-> -a.n, d |-> a.d]

Sub(a, b) == Add(a, Neg(b))

Mul(a, b) == Num(a.n * b.n, a.d * b.d)

\* a / b; a finite number over 0 is an infinity of a's sign, 0/0 is NaN
Div(a, b) ==
    IF b.d = 0 /\ a.d = 0 THEN NaN
    ELSE IF b.n < 0 THEN Num(-(a.n * b.d), a.d * (-b.n))
    ELSE Num(a.n * b.d, a.d * b.n)

\* a < b; false as soon as either side is NaN
Less(a, b) ==
    IF IsNaN(a) \/ IsNaN(b) THEN FALSE
    ELSE IF a.d = 0 /\ b.d = 0 THEN a.n < b.n
    ELSE IF a.d = 0 THEN a.n < 0
    ELSE IF b.d = 0 THEN b.n > 0
    ELSE a.n * b.d < b.n * a.d

Leq(a, b) == ~IsNaN(a) /\ ~IsNaN(b) /\ ~Less(b, a)

\* Math.abs
MathAbs(a) == [n |-> Abs(a.n), d |-> a.d]

\* Math.min(...s) and Math.max(...s): NaN as soon as one element is NaN
RECURSIVE MinFrom(_, _, _)
MinFrom(s, k, m) ==
    IF k > Len(s) THEN m
    ELSE MinFrom(s, k + 1, IF Less(s[k], m) THEN s[k] ELSE m)

RECURSIVE MaxFrom(_, _, _)
MaxFrom(s, k, m) ==
    IF k > Len(s) THEN m
    ELSE MaxFrom(s, k + 1, IF Less(m, s[k]) THEN s[k] ELSE m)

MathMin(s) ==
    IF \E k \in 1..Len(s) : IsNaN(s[k]) THEN NaN
    ELSE MinFrom(s, 1, [n |-> 1, d |-> 0])

MathMax(s) ==
    IF \E k \in 1..Len(s) : IsNaN(s[k]) THEN NaN
    ELSE MaxFrom(s, 1, [n |-> -1, d |-> 0])

\* values.flat()
RECURSIVE Flat(_)
Flat(m) == IF m = <<>> THEN <<>> ELSE Head(m) \o Flat(Tail(m))

----------------------------------------------------------------------------
(* #preprocess *)

\* lines 425-430: min and max elevation of the grid
RECURSIVE ElevMin(_, _, _)
ElevMin(s, k, m) ==
    IF k > Len(s) THEN m ELSE ElevMin(s, k + 1, IF s[k] < m THEN s[k] ELSE m)

RECURSIVE ElevMax(_, _, _)
ElevMax(s, k, m) ==
    IF k > Len(s) THEN m ELSE ElevMax(s, k + 1, IF s[k] > m THEN s[k] ELSE m)

Hundred == Int2Num(100)

\* lines 432-463: the points before they are fitted into the canvas, and
\* oneMeter after `oneMeter = oneMeter * scale`
Points(grid, verticalRatio) ==
    LET min == ElevMin(Flat(grid), 1, grid[1][1])
        range == Int2Num(ElevMax(Flat(grid), 1, grid[1][1]) - min)
        V == Int2Num(verticalRatio)
        numLines == Len(grid)
        numPoints == Len(grid[1])
        xInterval == Div(Hundred, Int2Num(numPoints - 1))
        yInterval == Div(Hundred, Int2Num(numLines - 1))
        scale == Div(Int2Num(20), Int2Num(numLines))
    IN [oneMeter |-> Mul(Mul(Div(Int2Num(1), range), V), scale),
        values |->
          [i \in 1..numLines |->
            [j \in 1..numPoints |->
              LET yPos == Mul(Int2Num(i - 1), yInterval)
                  remapped == Mul(Div(Int2Num(grid[i][j] - min), range), V)
                  height == Mul(remapped, scale)
              IN [x |-> Mul(xInterval, Int2Num(j - 1)),
                  y |-> Add(yPos, height),
                  baseY |-> yPos]]]]

\* lines 465-486: fit y and baseY into the canvas, rescale oneMeter, flip
\* lines 466-468: [minY, maxY]
YRange(vals) ==
    Eager(Flat(vals), LAMBDA flat :
        Eager([k \in 1..Len(flat) |-> flat[k].y], LAMBDA allYs :
            <<MathMin(allYs), MathMax(allYs)>>))

\* lines 470-472
remap(pos, minY, maxY) == Div(Mul(Hundred, Sub(pos, minY)), Sub(maxY, minY))

\* lines 465-486 without the flip of lines 480-486
RemapUnflipped(pre) ==
    Eager(YRange(pre.values), LAMBDA yr :
        [oneMeter |-> Div(Mul(pre.oneMeter, Hundred), Sub(yr[2], yr[1])),
         values |->
           [i \in 1..Len(pre.values) |->
             [j \in 1..Len(pre.values[i]) |->
               [x |-> pre.values[i][j].x,
                y |-> remap(pre.values[i][j].y, yr[1], yr[2]),
                baseY |-> remap(pre.values[i][j].baseY, yr[1], yr[2])]]]])

\* lines 465-486: fit y and baseY into the canvas, rescale oneMeter, flip
Remap(pre) ==
    Eager(YRange(pre.values), LAMBDA yr :
        [oneMeter |-> Div(Mul(pre.oneMeter, Hundred), Sub(yr[2], yr[1])),
         values |->
           [i \in 1..Len(pre.values) |->
             [j \in 1..Len(pre.values[i]) |->
               [x |-> pre.values[i][j].x,
                y |-> Sub(Hundred, remap(pre.values[i][j].y, yr[1], yr[2])),
                baseY |-> Sub(Hundred, remap(pre.values[i][j].baseY, yr[1], yr[2]))]]]])

\* lines 421-497; the result is { oneMeter, values: values.reverse() }
preprocess(grid, verticalRatio) ==
    Eager(Points(grid, verticalRatio), LAMBDA pre :
        Eager(Remap(pre), LAMBDA fitted :
            [oneMeter |-> fitted.oneMeter, values |-> Reverse(fitted.values)]))

----------------------------------------------------------------------------
(* The vector path engine (paper.js), sampled at the columns of the grid:   *)
(* the geometry of an item is, for every column k, the vertical interval    *)
(* [top, bot) it covers at that column's canvas x.  Every path generate     *)
(* subtracts reaches the canvas bottom (a source silhouette, the water      *)
(* rectangle, a full-height slice), so a difference is again one interval   *)
(* per column.  The vertex list of a part is its top boundary from left to  *)
(* right followed by its bottom boundary from right to left.                *)

NonEmpty(col) == Less(col.top, col.bot)

Pt(x, y) == [x |-> x, y |-> y]

EmptyPath(cols) ==
    [className |-> "Path", cols |-> cols, segments |-> <<>>,
     clockwise |-> TRUE, children |-> <<>>]

\* the columns of cols outside a..b emptied
Restrict(cols, a, b) ==
    [k \in 1..Len(cols) |->
        IF a <= k /\ k <= b THEN cols[k]
        ELSE [x |-> cols[k].x, top |-> cols[k].bot, bot |-> cols[k].bot]]

\* the closed path around columns a..b
PartPath(cols, a, b) ==
    [className |-> "Path",
     cols |-> Restrict(cols, a, b),
     segments |-> [k \in 1..(b - a + 1) |-> Pt(cols[a + k - 1].x, cols[a + k - 1].top)]
                  \o [k \in 1..(b - a + 1) |-> Pt(cols[b - k + 1].x, cols[b - k + 1].bot)],
     clockwise |-> TRUE,
     children |-> <<>>]

\* the maximal runs <<a, b>> of non-empty columns, from left to right
RECURSIVE Runs(_, _)
Runs(cols, k) ==
    IF k > Len(cols) THEN <<>>
    ELSE IF ~NonEmpty(cols[k]) THEN Runs(cols, k + 1)
    ELSE LET ends == {e \in k..Len(cols) : \A m \in k..e : NonEmpty(cols[m])}
             b == CHOOSE e \in ends : \A f \in ends : f <= e
         IN <<<<k, b>>>> \o Runs(cols, b + 1)

\* the item a boolean operation returns for a geometry: an empty Path, a
\* Path, or a CompoundPath with one child per disjoint part
FromCols(cols) ==
    Eager(Runs(cols, 1), LAMBDA runs :
        IF Len(runs) = 0 THEN EmptyPath(cols)
        ELSE IF Len(runs) = 1 THEN PartPath(cols, runs[1][1], runs[1][2])
        ELSE [className |-> "CompoundPath", cols |-> cols, segments |-> <<>>,
              clockwise |-> TRUE,
              children |-> [r \in 1..Len(runs) |->
                              PartPath(cols, runs[r][1], runs[r][2])]])

\* [top, bot) minus [t2, b2), the latter reaching at least as low as bot
SubCol(col, t2, b2) ==
    IF NonEmpty(col) /\ Less(t2, b2) /\ Less(t2, col.bot) /\ Less(col.top, b2)
    THEN [x |-> col.x, top |-> col.top, bot |-> t2]
    ELSE col

\* item.subtract(other, { insert: false })
Subtract(item, other) ==
    Eager([k \in 1..Len(item.cols) |->
             SubCol(item.cols[k], other.cols[k].top, other.cols[k].bot)],
          LAMBDA cols : FromCols(cols))

RMin(a, b) == IF Less(b, a) THEN b ELSE a
RMax(a, b) == IF Less(a, b) THEN b ELSE a

\* item.subtract(rectangle with corners (x1, y1) and (x2, y2), { insert: false })
SubtractRect(item, x1, y1, x2, y2) ==
    Eager([k \in 1..Len(item.cols) |->
             IF Leq(RMin(x1, x2), item.cols[k].x) /\ Leq(item.cols[k].x, RMax(x1, x2))
             THEN SubCol(item.cols[k], RMin(y1, y2), RMax(y1, y2))
             ELSE item.cols[k]],
          LAMBDA cols : FromCols(cols))

\* lines 125-138: new paper.Path({ segments: [ ...lineSegments,
\*   [ width, height ], [ 0, height ], lineSegments[0] ] })
SourcePath(line, w, h) ==
    Eager([k \in 1..Len(line) |->
             Pt(Div(Mul(line[k].x, w), Hundred), Div(Mul(line[k].y, h), Hundred))],
          LAMBDA lineSegments :
            [className |-> "Path",
             cols |-> [k \in 1..Len(line) |->
                         [x |-> lineSegments[k].x, top |-> lineSegments[k].y, bot |-> h]],
             segments |-> lineSegments
                          \o <<Pt(w, h), Pt(Int2Num(0), h), lineSegments[1]>>,
             clockwise |-> TRUE,
             children |-> <<>>])

----------------------------------------------------------------------------
(* #round, #paperGetStroke, #lineDiff *)

\* Math.round(num * 10**2) / 10**2
round(a) ==
    IF a.d = 0 THEN a
    ELSE Num((200 * a.n + a.d) \div (2 * a.d), 100)

MoreTopLeftTopmost(p, q) == Less(round(p.y), round(q.y))

MoreTopLeft(p, q) ==
    \/ Less(round(p.x), round(q.x))
    \/ round(p.x) = round(q.x) /\ ~IsNaN(p.x) /\ Less(round(p.y), round(q.y))

MoreTopRightLowest(p, q) ==
    \/ Less(round(q.x), round(p.x))
    \/ round(p.x) = round(q.x) /\ ~IsNaN(p.x) /\ Less(round(q.y), round(p.y))

MoreTopRight(p, q) ==
    \/ Less(round(q.x), round(p.x))
    \/ round(p.x) = round(q.x) /\ ~IsNaN(p.x) /\ Less(round(p.y), round(q.y))

\* lines 509-538: index of minX (maxX) after the points up to k were seen
RECURSIVE MinXIndex(_, _, _)
MinXIndex(segs, k, m) ==
    IF k > Len(segs) THEN m
    ELSE MinXIndex(segs, k + 1, IF MoreTopLeft(segs[k], segs[m]) THEN k ELSE m)

RECURSIVE MaxXIndex(_, _, _)
MaxXIndex(segs, k, m) ==
    IF k > Len(segs) THEN m
    ELSE MaxXIndex(segs, k + 1, IF MoreTopRight(segs[k], segs[m]) THEN k ELSE m)

paperGetStrokeUnreversed(path) ==
    IF Len(path.segments) = 0 THEN <<>>
    ELSE Eager(<<MinXIndex(path.segments, 2, 1), MaxXIndex(path.segments, 2, 1)>>,
               LAMBDA mm :
         IF path.clockwise
         THEN IF mm[1] < mm[2]
              THEN SubSeq(path.segments, mm[1], mm[2])
              ELSE SubSeq(path.segments, mm[1], Len(path.segments))
                   \o SubSeq(path.segments, 1, mm[2])
         ELSE IF mm[1] > mm[2]
              THEN SubSeq(path.segments, mm[2], mm[1])
              ELSE SubSeq(path.segments, mm[2], Len(path.segments))
                   \o SubSeq(path.segments, 1, mm[1]))

paperGetStroke(path) ==
    IF Len(path.segments) = 0 THEN <<>>
    ELSE Eager(<<MinXIndex(path.segments, 2, 1), MaxXIndex(path.segments, 2, 1)>>,
               LAMBDA mm :
         LET segs == path.segments
             minX == mm[1]
             maxX == mm[2]
         IN IF path.clockwise
            THEN IF minX < maxX
                 THEN SubSeq(segs, minX, maxX)
                 ELSE SubSeq(segs, minX, Len(segs)) \o SubSeq(segs, 1, maxX)
            ELSE Reverse(IF minX > maxX
                         THEN SubSeq(segs, maxX, minX)
                         ELSE SubSeq(segs, maxX, Len(segs)) \o SubSeq(segs, 1, minX)))

\* lines 575-586
lineDiff(segments) ==
    [i \in 1..Len(segments) |->
        [x |-> segments[i].x,
         y |-> segments[i].y,
         diff |-> IF i > 1 THEN MathAbs(Sub(segments[i].y, segments[i - 1].y))
                  ELSE IF i < Len(segments)
                       THEN MathAbs(Sub(segments[i].y, segments[i + 1].y))
                       ELSE Int2Num(0)]]

----------------------------------------------------------------------------
(* generate *)

\* elevations of the grids generate is run on, in metres
Reliefs == {0, 1, 2}

VerticalRatios == {1, 40}
LakeFlatnesses == {0, 1}
WaterNTiles == {0, 1}

\* constructor, lnglat projection: pos1 = [lng1, lat1], pos2 = [lng2, lat2]
pos1 == <<bbox[1], bbox[2]>>
pos2 == <<bbox[3], bbox[4]>>

\* lines 110-112
width == Int2Num(100)
height == Div(width, Div(Int2Num(pos2[1] - pos1[1]), Int2Num(pos2[2] - pos1[2])))

\* lines 114-138: #preprocess, paper.setup and the source silhouettes
Generate(o) ==
    /\ pc = "sampled"
    /\ opts' = o
    /\ \E pre \in {preprocess(data, o.verticalRatio)} :
          /\ values' = pre.values
          /\ oneMeter' = pre.oneMeter
          /\ srcPaths' = [r \in 1..Len(pre.values) |->
                            SourcePath(pre.values[r], width, height)]
    /\ layerClip' = <<>>
    /\ loopI' = 1
    /\ pc' = "cull"
    /\ UNCHANGED <<viewpoint, tileset, bbox, data, sampVars, rotVars,
                   layerLakeFlatness, segmentDiff, removals, strokes,
                   sceneVars>>

\* lines 144-147: crop after srcPaths[j] was subtracted for j = from..last
RECURSIVE SubtractNearer(_, _, _)
SubtractNearer(crop, paths, j) ==
    IF j > Len(paths) THEN crop
    ELSE Eager(Subtract(crop, paths[j]), LAMBDA c : SubtractNearer(c, paths, j + 1))

FirstNearerFromSelf(r) == r

FirstNearer(r) == r + 1

OcclusionRemainder(paths, r) == SubtractNearer(paths[r], paths, FirstNearer(r))

\* lines 151-161
waterYPos(line, om, waterNTile) ==
    Div(Mul(Sub(line[1].baseY, Mul(om, Int2Num(waterNTile))), height), Hundred)

SubtractWaterAlways(crop, line, om, waterNTile) ==
    SubtractRect(crop, Int2Num(0), waterYPos(line, om, waterNTile), width, height)

SubtractWater(crop, line, om, waterNTile) ==
    IF waterNTile > 0
    THEN SubtractRect(crop, Int2Num(0), waterYPos(line, om, waterNTile), width, height)
    ELSE crop

\* lines 143-166: one pass of the occlusion loop; the pass for the last row
\* leaves the loop (layerSrc.removeChildren())
CullRow ==
    /\ pc = "cull"
    /\ loopI <= Len(srcPaths)
    /\ \E crop \in {OcclusionRemainder(srcPaths, loopI)} :
          layerClip' = Append(layerClip,
                              SubtractWater(crop, values[loopI], oneMeter,
                                            opts.waterNTile))
    /\ IF loopI < Len(srcPaths)
       THEN /\ loopI' = loopI + 1
            /\ pc' = pc
       ELSE /\ loopI' = 1
            /\ pc' = IF opts.lakeFlatness > 0 THEN "lake" ELSE "stroke"
    /\ UNCHANGED <<viewpoint, tileset, bbox, data, sampVars, rotVars, opts, values,
                   oneMeter, srcPaths, layerLakeFlatness, segmentDiff, removals,
                   strokes,
                   sceneVars>>

\* lines 174-182
RECURSIVE ChildStrokes(_, _)
ChildStrokes(children, k) ==
    IF k > Len(children) THEN <<>>
    ELSE paperGetStroke(children[k]) \o ChildStrokes(children, k + 1)

LayerSegments(layer) ==
    IF layer.className = "CompoundPath"
    THEN ChildStrokes(layer.children, 1)
    ELSE paperGetStroke(layer)

\* lines 186-190
SegmentDiff(segments, lakeFlatness, om) ==
    Eager(lineDiff(segments), LAMBDA diffs :
        [k \in 1..Len(diffs) |->
           [x |-> diffs[k].x, y |-> diffs[k].y, diff |-> diffs[k].diff,
            remove |-> Less(diffs[k].diff, Mul(Int2Num(lakeFlatness), om))]])

RECURSIVE TransitionsInner(_, _)
TransitionsInner(sd, k) ==
    IF k > Len(sd) - 1 THEN <<>>
    ELSE (IF ~sd[k].remove /\ sd[k + 1].remove THEN <<sd[k + 1]>> ELSE <<>>)
         \o (IF sd[k].remove /\ ~sd[k + 1].remove THEN <<sd[k]>> ELSE <<>>)
         \o TransitionsInner(sd, k + 1)

\* lines 197-207
RECURSIVE Transitions(_, _)
Transitions(sd, k) ==
    IF k > Len(sd) - 1 THEN <<>>
    ELSE (IF ~sd[k].remove /\ sd[k + 1].remove THEN <<sd[k]>> ELSE <<>>)
         \o (IF sd[k].remove /\ ~sd[k + 1].remove THEN <<sd[k + 1]>> ELSE <<>>)
         \o Transitions(sd, k + 1)

\* lines 193-212
Removals(sd) ==
    Eager((IF sd[1].remove THEN <<sd[1]>> ELSE <<>>) \o Transitions(sd, 1),
          LAMBDA found :
            IF Len(found) % 2 = 1 THEN Append(found, sd[Len(sd)]) ELSE found)

\* lines 216-230: crop after the slices of removals[j], removals[j+1], ...
RECURSIVE SubtractSlices(_, _, _)
SubtractSlices(crop, rem, j) ==
    IF j > Len(rem) THEN crop
    ELSE Eager(SubtractRect(crop, rem[j].x, Int2Num(0), rem[j + 1].x, height),
               LAMBDA c : SubtractSlices(c, rem, j + 2))

\* lines 173-233: one pass of the lakeFlatness loop; the pass for the last
\* layer leaves the loop (layerClip.removeChildren())
LakeLayer ==
    /\ pc = "lake"
    /\ loopI <= Len(layerClip)
    /\ \E segments \in {LayerSegments(layerClip[loopI])} :
          IF Len(segments) = 0
          THEN UNCHANGED <<layerLakeFlatness, segmentDiff, removals>>
          ELSE \E sd \in {SegmentDiff(segments, opts.lakeFlatness, oneMeter)} :
                 \E rem \in {Removals(sd)} :
                    /\ segmentDiff' = sd
                    /\ removals' = rem
                    /\ layerLakeFlatness' =
                         Append(layerLakeFlatness,
                                SubtractSlices(layerClip[loopI], rem, 1))
    /\ IF loopI < Len(layerClip)
       THEN /\ loopI' = loopI + 1
            /\ pc' = pc
       ELSE /\ loopI' = 1
            /\ pc' = "stroke"
    /\ UNCHANGED <<viewpoint, tileset, bbox, data, sampVars, rotVars, opts, values,
                   oneMeter, srcPaths, layerClip, strokes,
                   sceneVars>>

\* lines 256-276: the strokes of the layers, one per non-empty part
RECURSIVE LayerStrokes(_, _)
LayerStrokes(layers, k) ==
    IF k > Len(layers) THEN <<>>
    ELSE LET parts == IF layers[k].className = "CompoundPath"
                      THEN layers[k].children ELSE <<layers[k]>>
             made == [p \in 1..Len(parts) |-> paperGetStroke(parts[p])]
         IN SelectSeq(made, LAMBDA st : Len(st) # 0) \o LayerStrokes(layers, k + 1)

\* lines 237-280
Strokes ==
    /\ pc = "stroke"
    /\ strokes' = LayerStrokes(IF opts.lakeFlatness > 0
                               THEN layerLakeFlatness ELSE layerClip, 1)
    /\ pc' = "generated"
    /\ UNCHANGED <<viewpoint, tileset, bbox, data, sampVars, rotVars, opts, values,
                   oneMeter, srcPaths, layerClip, layerLakeFlatness, loopI,
                   segmentDiff, removals,
                   sceneVars>>

\* the verticalRatio generate falls back to
DefaultVerticalRatio == 40

GenerateOptions ==
    [lakeFlatness : LakeFlatnesses,
     verticalRatio : {DefaultVerticalRatio},
     waterNTile : WaterNTiles]

\* generate on an instance whose getElevationData has stored a grid
InitGenerate ==
    /\ pc = "sampled"
    /\ viewpoint = "south"
    /\ tileset = "ramp"
    /\ num = 0
    /\ points = 0
    /\ argNum = 0
    /\ argPoints = 0
    /\ lookups = <<>>
    /\ colResults = <<>>
    /\ rowResults = <<>>
    /\ data \in BoundedGrids(Reliefs)
    /\ orig = <<>>
    /\ applied = 0
    /\ bbox \in Bboxes
    /\ GenIdle

NextGenerate ==
    \/ \E o \in GenerateOptions : Generate(o)
    \/ CullRow
    \/ LakeLayer
    \/ Strokes

SpecGenerate == InitGenerate /\ [][NextGenerate]_vars

----------------------------------------------------------------------------
(* #preprocess on its own: generate's first step on any stored grid *)

Preprocess ==
    /\ pc = "preprocess"
    /\ \E pre \in {preprocess(data, opts.verticalRatio)} :
          /\ values' = pre.values
          /\ oneMeter' = pre.oneMeter
    /\ pc' = "preprocessed"
    /\ UNCHANGED <<viewpoint, tileset, bbox, data, sampVars, rotVars, opts,
                   srcPaths, layerClip, layerLakeFlatness, loopI, segmentDiff,
                   removals, strokes,
                   sceneVars>>

InitPreprocess ==
    /\ pc = "preprocess"
    /\ viewpoint = "south"
    /\ tileset = "ramp"
    /\ num = 0
    /\ points = 0
    /\ argNum = 0
    /\ argPoints = 0
    /\ lookups = <<>>
    /\ colResults = <<>>
    /\ rowResults = <<>>
    /\ data \in BoundedGrids(0..MaxElev)
    /\ orig = <<>>
    /\ applied = 0
    /\ bbox \in Bboxes
    /\ \E v \in VerticalRatios :
          opts = [lakeFlatness |-> 0, verticalRatio |-> v, waterNTile |-> 0]
    /\ values = <<>>
    /\ oneMeter = [n |-> 0, d |-> 1]
    /\ srcPaths = <<>>
    /\ layerClip = <<>>
    /\ layerLakeFlatness = <<>>
    /\ loopI = 0
    /\ segmentDiff = <<>>
    /\ removals = <<>>
    /\ strokes = <<>>
    /\ SceneIdle

NextPreprocess == Preprocess

SpecPreprocess == InitPreprocess /\ [][NextPreprocess]_vars

----------------------------------------------------------------------------
(* #paperGetStroke on arbitrary vertex lists *)

MaxVerts == 4

\* vertices: the corners of a square, two points on its vertical axis, and one
\* point nearer to a corner than the two decimals #round keeps
StrokePoints ==
    {Pt(Int2Num(x), Int2Num(y)) : x \in {0, 2}, y \in {0, 2}}
        \cup {Pt(Int2Num(1), Int2Num(0)), Pt(Int2Num(1), Int2Num(1)),
              Pt(Num(1, 250), Int2Num(2))}

\* twice the signed area of the closed polygon through segs[k], segs[k+1], ...
RECURSIVE AreaFrom(_, _)
AreaFrom(segs, k) ==
    IF k > Len(segs) THEN Int2Num(0)
    ELSE Add(Sub(Mul(segs[k].x, segs[(k % Len(segs)) + 1].y),
                 Mul(segs[(k % Len(segs)) + 1].x, segs[k].y)),
             AreaFrom(segs, k + 1))

\* path.clockwise: paper.js reports a path of area >= 0 (y pointing down) as
\* clockwise
isClockwise(segs) == Leq(Int2Num(0), AreaFrom(segs, 1))

\* a paper.Path with the given segments
PathOf(segs) ==
    [className |-> "Path", cols |-> <<>>, segments |-> segs,
     clockwise |-> isClockwise(segs), children |-> <<>>]

VertexLists == UNION {[1..n -> StrokePoints] : n \in 0..MaxVerts}

\* the stroke loop of generate on a layer holding one path
InitStroke ==
    /\ pc = "stroke"
    /\ viewpoint = "south"
    /\ tileset = "ramp"
    /\ num = 0
    /\ points = 0
    /\ argNum = 0
    /\ argPoints = 0
    /\ lookups = <<>>
    /\ colResults = <<>>
    /\ rowResults = <<>>
    /\ data = <<>>
    /\ orig = <<>>
    /\ applied = 0
    /\ bbox = <<0, 0, 1, 1>>
    /\ opts = [lakeFlatness |-> 0, verticalRatio |-> DefaultVerticalRatio,
               waterNTile |-> 0]
    /\ values = <<>>
    /\ oneMeter = [n |-> 0, d |-> 1]
    /\ srcPaths = <<>>
    /\ \E segs \in VertexLists : layerClip = <<PathOf(segs)>>
    /\ layerLakeFlatness = <<>>
    /\ loopI = 1
    /\ segmentDiff = <<>>
    /\ removals = <<>>
    /\ strokes = <<>>
    /\ SceneIdle

NextStroke == Strokes

SpecStroke == InitStroke /\ [][NextStroke]_vars

----------------------------------------------------------------------------
(* the lakeFlatness loop of generate on arbitrary regions *)

MaxColumns == 5

\* canvas y of the ridge of a region at a column; at 100, the canvas bottom,
\* the region has nothing at the column
LakeTops == {0, 5, 20, 100}

\* lakeFlatness settings of the loop: thresholds of 10 and 20 on the canvas
\* with the oneMeter below
LakeThresholds == {1, 2}

LakeOneMeter == Int2Num(10)

\* column k of n of a region on the square canvas, from its ridge down to the
\* canvas bottom
LakeColumn(k, n, top) ==
    [x |-> Div(Int2Num(100 * (k - 1)), Int2Num(n - 1)),
     top |-> Int2Num(top), bot |-> Hundred]

\* the regions of n columns, each part at least two columns wide
Regions(n) ==
    {FromCols([k \in 1..n |-> LakeColumn(k, n, tops[k])]) :
        tops \in {t \in [1..n -> LakeTops] :
                    \A k \in 1..n :
                        t[k] # 100 => \/ k > 1 /\ t[k - 1] # 100
                                      \/ k < n /\ t[k + 1] # 100}}

\* the lakeFlatness loop and the stroke loop on a layer holding one region
InitLake ==
    /\ pc = "lake"
    /\ viewpoint = "south"
    /\ tileset = "ramp"
    /\ num = 0
    /\ points = 0
    /\ argNum = 0
    /\ argPoints = 0
    /\ lookups = <<>>
    /\ colResults = <<>>
    /\ rowResults = <<>>
    /\ data = <<>>
    /\ orig = <<>>
    /\ applied = 0
    /\ bbox = <<0, 0, 1, 1>>
    /\ \E t \in LakeThresholds :
          opts = [lakeFlatness |-> t, verticalRatio |-> DefaultVerticalRatio,
                  waterNTile |-> 0]
    /\ values = <<>>
    /\ oneMeter = LakeOneMeter
    /\ srcPaths = <<>>
    /\ \E region \in Regions(MaxColumns) : layerClip = <<region>>
    /\ layerLakeFlatness = <<>>
    /\ loopI = 1
    /\ segmentDiff = <<>>
    /\ removals = <<>>
    /\ strokes = <<>>
    /\ SceneIdle

NextLake ==
    \/ LakeLayer
    \/ Strokes

SpecLake == InitLake /\ [][NextLake]_vars

----------------------------------------------------------------------------
(* generate and save of two instances on the imported paper scope *)

MaxGenerates == 3

\* generate of instance i, as far as the scene goes: paper.setup replaces the
\* project of the one scope every instance imports, the scene of this run is
\* drawn into it, and this._paper is set to that scope (lines 121, 124-278, 280)
GenerateScene(i) ==
    /\ generated[i] < MaxGenerates
    /\ generated' = [generated EXCEPT ![i] = @ + 1]
    /\ paperProject' = [owner |-> i, run |-> generated[i] + 1]
    /\ instPaper' = [instPaper EXCEPT ![i] = TRUE]
    /\ UNCHANGED <<pc, viewpoint, tileset, bbox, data, sampVars, rotVars, genVars,
                   written>>

\* save of instance i: this._paper.project.exportSVG(...) is what writeFile is
\* handed; before the first generate this._paper is undefined and save throws
Save(i) ==
    /\ instPaper[i]
    /\ written' = [written EXCEPT ![i] = paperProject]
    /\ UNCHANGED <<pc, viewpoint, tileset, bbox, data, sampVars, rotVars, genVars,
                   paperProject, instPaper, generated>>

InitScene ==
    /\ pc = "sampled"
    /\ viewpoint = "south"
    /\ tileset = "ramp"
    /\ num = 0
    /\ points = 0
    /\ argNum = 0
    /\ argPoints = 0
    /\ lookups = <<>>
    /\ colResults = <<>>
    /\ rowResults = <<>>
    /\ data = <<>>
    /\ orig = <<>>
    /\ applied = 0
    /\ bbox = <<0, 0, 1, 1>>
    /\ GenIdle

NextScene ==
    \E i \in Instances :
        \/ GenerateScene(i)
        \/ Save(i)

SpecScene == InitScene /\ [][NextScene]_vars

----------------------------------------------------------------------------
(* Claims about sampling and rotation *)

\* the samples #getData took on the edge of the region that faces viewpoint v
\* (rowResults is #getData's grid: row 1 southernmost, column 1 westernmost)
EdgeSamples(v) ==
    CASE v = "south" -> rowResults[1]
      [] v = "north" -> rowResults[num]
      [] v = "west"  -> [r \in 1..num |-> rowResults[r][1]]
      [] v = "east"  -> [r \in 1..num |-> rowResults[r][points]]

\* C1: for every viewpoint v, row 0 of the grid getElevationData stores holds
\* the samples on the v edge of the region (in either direction along it).
C1_FrontRowIsViewpointEdge ==
    pc = "sampled" =>
        data[1] \in {EdgeSamples(viewpoint), Reverse(EdgeSamples(viewpoint))}

\* C2: for every viewpoint the stored grid has exactly num rows of points
\* samples, num and points being the caller's arguments.
C2_RotatedGridIsNumByPoints ==
    pc = "sampled" =>
        /\ Len(data) = argNum
        /\ \A r \in 1..Len(data) : Len(data[r]) = argPoints

C9_FourRotationsRestore ==
    /\ applied = 4 => data = orig
    /\ (viewpoint = "east" /\ applied = 1) =>
          /\ Len(data) = Len(orig[1])
          /\ \A r \in 1..Len(data) : Len(data[r]) = Len(orig)

C9_Witness ==
    /\ applied = 4
    /\ viewpoint = "east"
    /\ Len(orig) = 1
    /\ Len(orig[1]) = 2
    /\ orig[1][1] # orig[1][2]


----------------------------------------------------------------------------
(* Claims about #preprocess *)

DataMin == ElevMin(Flat(data), 1, data[1][1])
DataMax == ElevMax(Flat(data), 1, data[1][1])

\* at least 2 rows, at least 2 columns, max elevation > min elevation
NonDegenerate == Len(data) >= 2 /\ Len(data[1]) >= 2 /\ DataMax > DataMin

InCanvas(a) == Leq(Int2Num(0), a) /\ Leq(a, Hundred)

PointIds == {<<r, k>> \in (1..Len(values)) \X (1..MaxSamples + 1) :
                k <= Len(values[r])}

C4_DegenerateGridsStayFinite ==
    pc = "preprocessed" =>
        /\ DataMax = DataMin =>
              /\ oneMeter = Int2Num(0)
              /\ \A p \in PointIds :
                    /\ IsFinite(values[p[1]][p[2]].y)
                    /\ values[p[1]][p[2]].y = values[p[1]][p[2]].baseY
        /\ (Len(data) = 1 \/ Len(data[1]) = 1) =>
              \A p \in PointIds :
                  /\ IsFinite(values[p[1]][p[2]].x)
                  /\ IsFinite(values[p[1]][p[2]].y)
                  /\ IsFinite(values[p[1]][p[2]].baseY)

\* C6: for every point #preprocess returns on a non-degenerate grid, baseY - y
\* is the sample's elevation in metres times the returned oneMeter (returned
\* row r is row Len(data) + 1 - r of the grid).
C6_BaseYIsZeroMetres ==
    (pc = "preprocessed" /\ NonDegenerate) =>
        \A p \in PointIds :
            Sub(values[p[1]][p[2]].baseY, values[p[1]][p[2]].y)
                = Mul(Int2Num(data[Len(data) + 1 - p[1]][p[2]]), oneMeter)

\* C11: #preprocess returns the rows back to front: returned row r is row
\* Len(data) + 1 - r of the stored grid (its ridge stands (elevation - min)
\* metres above its base line), and for a grid of at least 2 rows baseY
\* strictly increases from each returned row to the next.
C11_RowsBackToFront ==
    (pc = "preprocessed" /\ Len(data) >= 2) =>
        /\ Len(values) = Len(data)
        /\ \A p \in PointIds :
              Sub(values[p[1]][p[2]].baseY, values[p[1]][p[2]].y)
                  = Mul(Int2Num(data[Len(data) + 1 - p[1]][p[2]] - DataMin),
                        oneMeter)
        /\ \A p \in PointIds :
              p[1] < Len(values) =>
                  Less(values[p[1]][p[2]].baseY, values[p[1] + 1][p[2]].baseY)

----------------------------------------------------------------------------
(* Claims about generate *)

\* every coordinate #preprocess returned is a finite number
ValuesFinite ==
    \A p \in PointIds :
        /\ IsFinite(values[p[1]][p[2]].x)
        /\ IsFinite(values[p[1]][p[2]].y)
        /\ IsFinite(values[p[1]][p[2]].baseY)

CanvasY(a) == Div(Mul(a, height), Hundred)

\* canvas y of the ridge of returned row r at column k
RidgeTop(r, k) == CanvasY(values[r][k].y)

\* the highest ridge, at column k, of the rows nearer than row r; the canvas
\* bottom when there is none
NearerBound(r, k) ==
    Eager({height} \cup {RidgeTop(j, k) : j \in (r + 1)..Len(values)},
          LAMBDA S : CHOOSE m \in S : \A o \in S : Leq(m, o))

\* canvas y of the water line of returned row r
WaterLine(r) ==
    CanvasY(Sub(values[r][1].baseY, Mul(oneMeter, Int2Num(opts.waterNTile))))

Culled == {<<r, k>> \in PointIds : r <= Len(layerClip)}

\* C7: with lakeFlatness T > 0 a top-boundary point is marked for removal
\* exactly when the elevation difference to its neighbouring boundary point,
\* in metres, is below T, whatever the canvas height.  Stated for the front
\* row, whose top boundary is its whole ridge: grid row 0, the layer the
\* lakeFlatness loop handles last.
C7_RemoveIffBelowThresholdMetres ==
    (/\ pc = "stroke"
     /\ opts.lakeFlatness > 0
     /\ opts.waterNTile = 0
     /\ NonDegenerate) =>
        /\ Len(segmentDiff) = Len(data[1])
        /\ \A k \in 1..Len(data[1]) :
              segmentDiff[k].remove <=>
                  Abs(data[1][k] - data[1][IF k > 1 THEN k - 1 ELSE k + 1])
                      < opts.lakeFlatness

\* C8: with waterNTile N > 0 the region of every row is its occlusion
\* remainder cut by a rectangle whose top edge is at the row's
\* baseY - oneMeter*N scaled to the canvas height, so nothing of it lies below
\* that line; with N = 0 the region is exactly the occlusion remainder.
C8_WaterRectangle ==
    (pc \in {"cull", "lake", "stroke", "generated"} /\ ValuesFinite) =>
        \A p \in Culled :
            \E col \in {layerClip[p[1]].cols[p[2]]},
               top \in {RidgeTop(p[1], p[2])},
               nearer \in {NearerBound(p[1], p[2])},
               water \in {WaterLine(p[1])} :
                IF opts.waterNTile > 0
                THEN /\ values[p[1]][p[2]].baseY = values[p[1]][1].baseY
                     /\ NonEmpty(col) => Leq(col.bot, water)
                     /\ (Less(top, water) /\ Less(water, nearer)) =>
                            (NonEmpty(col) /\ col.bot = water)
                     /\ (Less(top, nearer) /\ Leq(nearer, water)) =>
                            (NonEmpty(col) /\ col.bot = nearer)
                ELSE /\ NonEmpty(col) => col.bot = nearer
                     /\ Less(top, nearer) => NonEmpty(col)

C8_Witness ==
    /\ pc = "generated"
    /\ ValuesFinite
    /\ opts.waterNTile > 0
    /\ \E p \in Culled :
          /\ NonEmpty(layerClip[p[1]].cols[p[2]])
          /\ layerClip[p[1]].cols[p[2]].bot = WaterLine(p[1])
          /\ Less(WaterLine(p[1]), NearerBound(p[1], p[2]))

\* C10: the region the occlusion loop produces for row i is row i's original
\* silhouette minus the original silhouettes of exactly the rows j > i (and
\* the water rectangle, if enabled): at every column it reaches from the
\* row's own ridge down to the highest ridge of the nearer rows, the canvas
\* bottom for the last row; the source silhouettes stay what they were.
C10_OnlyNearerRowsSubtracted ==
    (pc \in {"cull", "lake", "stroke", "generated"} /\ ValuesFinite) =>
        /\ \A r \in 1..Len(values) :
              srcPaths[r] = SourcePath(values[r], width, height)
        /\ \A p \in Culled :
            \E col \in {layerClip[p[1]].cols[p[2]]},
               top \in {RidgeTop(p[1], p[2])},
               bound \in {IF opts.waterNTile > 0
                          THEN RMin(NearerBound(p[1], p[2]), WaterLine(p[1]))
                          ELSE NearerBound(p[1], p[2])} :
                IF Less(top, bound)
                THEN col.top = top /\ col.bot = bound
                ELSE ~NonEmpty(col)

C10_Witness ==
    /\ pc = "generated"
    /\ ValuesFinite
    /\ opts.waterNTile = 0
    /\ Len(layerClip) = 3
    /\ \E k \in 1..Len(values[1]) :
          /\ NonEmpty(layerClip[1].cols[k])
          /\ Less(layerClip[1].cols[k].bot, RidgeTop(2, k))
          /\ layerClip[1].cols[k].bot = RidgeTop(3, k)
          /\ layerClip[3].cols[k].bot = height

----------------------------------------------------------------------------
(* Claims about #paperGetStroke *)

\* vertex i is leftmost by rounded x, topmost by rounded y among those
IsLeftmost(segs, i) ==
    \A j \in 1..Len(segs) :
        \/ Less(round(segs[i].x), round(segs[j].x))
        \/ /\ round(segs[i].x) = round(segs[j].x)
           /\ Leq(round(segs[i].y), round(segs[j].y))

\* vertex i is rightmost by rounded x, topmost by rounded y among those
IsRightmost(segs, i) ==
    \A j \in 1..Len(segs) :
        \/ Less(round(segs[j].x), round(segs[i].x))
        \/ /\ round(segs[i].x) = round(segs[j].x)
           /\ Leq(round(segs[i].y), round(segs[j].y))

\* index of L (of R): the first such vertex of the list
LIndex(segs) ==
    CHOOSE i \in 1..Len(segs) :
        IsLeftmost(segs, i) /\ \A j \in 1..(i - 1) : ~IsLeftmost(segs, j)

RIndex(segs) ==
    CHOOSE i \in 1..Len(segs) :
        IsRightmost(segs, i) /\ \A j \in 1..(i - 1) : ~IsRightmost(segs, j)

\* the boundary walk from L to R
BoundaryWalk(segs, clockwise, l, r) ==
    IF clockwise
    THEN IF l < r THEN SubSeq(segs, l, r)
         ELSE SubSeq(segs, l, Len(segs)) \o SubSeq(segs, 1, r)
    ELSE IF l > r THEN Reverse(SubSeq(segs, r, l))
         ELSE Reverse(SubSeq(segs, r, Len(segs)) \o SubSeq(segs, 1, l))

\* C12: for every vertex list, either winding and every seam position the
\* stroke starts at L, ends at R and is the boundary walk from L to R (indices
\* L..R, wrapping over the seam, mirrored and reversed when counter-clockwise);
\* an empty vertex list yields an empty stroke, which generate draws nothing for.
C12_StrokeIsWalkFromLToR ==
    (pc \in {"stroke", "generated"} /\ Len(layerClip) = 1) =>
        \E segs \in {layerClip[1].segments}, st \in {paperGetStroke(layerClip[1])} :
            IF Len(segs) = 0
            THEN st = <<>> /\ (pc = "generated" => strokes = <<>>)
            ELSE \E l \in {LIndex(segs)}, r \in {RIndex(segs)} :
                    /\ Len(st) >= 1
                    /\ st[1] = segs[l]
                    /\ st[Len(st)] = segs[r]
                    /\ st = BoundaryWalk(segs, layerClip[1].clockwise, l, r)
                    /\ pc = "generated" => strokes = <<st>>

\* a clockwise list of non-zero area whose seam lies between L and R has been
\* drawn
C12_Witness ==
    /\ pc = "generated"
    /\ Len(layerClip) = 1
    /\ Len(layerClip[1].segments) = 4
    /\ layerClip[1].clockwise
    /\ AreaFrom(layerClip[1].segments, 1) # Int2Num(0)
    /\ LIndex(layerClip[1].segments) > RIndex(layerClip[1].segments)
    /\ Len(strokes) = 1
    /\ Len(strokes[1]) = 3

\* sign of the turn a -> b -> c: 0 when collinear
Orient(a, b, c) ==
    Sign(Sub(Mul(Sub(b.x, a.x), Sub(c.y, a.y)),
             Mul(Sub(b.y, a.y), Sub(c.x, a.x))).n)

\* c, collinear with a and b, lies on the closed segment a-b
Within(a, b, c) ==
    /\ Leq(RMin(a.x, b.x), c.x) /\ Leq(c.x, RMax(a.x, b.x))
    /\ Leq(RMin(a.y, b.y), c.y) /\ Leq(c.y, RMax(a.y, b.y))

\* the closed segments a-b and c-d have a point in common
Meet(a, b, c, d) ==
    \/ /\ Orient(a, b, c) * Orient(a, b, d) < 0
       /\ Orient(c, d, a) * Orient(c, d, b) < 0
    \/ Orient(a, b, c) = 0 /\ Within(a, b, c)
    \/ Orient(a, b, d) = 0 /\ Within(a, b, d)
    \/ Orient(c, d, a) = 0 /\ Within(c, d, a)
    \/ Orient(c, d, b) = 0 /\ Within(c, d, b)

\* the closed polygon through segs is simple: at least 3 distinct vertices,
\* consecutive edges meet in their common vertex only, other edges not at all
Simple(segs) ==
    LET n == Len(segs)
        nxt(i) == (i % n) + 1
    IN /\ n >= 3
       /\ \A i, j \in 1..n : i < j => segs[i] # segs[j]
       /\ \A i \in 1..n :
             ~(/\ Orient(segs[i], segs[nxt(i)], segs[nxt(nxt(i))]) = 0
               /\ \/ Within(segs[i], segs[nxt(i)], segs[nxt(nxt(i))])
                  \/ Within(segs[nxt(i)], segs[nxt(nxt(i))], segs[i]))
       /\ \A i, j \in 1..n :
             (i < j /\ nxt(i) # j /\ nxt(j) # i) =>
                 ~Meet(segs[i], segs[nxt(i)], segs[j], segs[nxt(j)])

\* C13 as stated: for a simple closed polygon the stroke is non-empty and its
\* x coordinates strictly increase from the first point to the last.
C13_StrokeStrictlyLeftToRight ==
    (pc = "generated" /\ Len(layerClip) = 1 /\ Simple(layerClip[1].segments)) =>
        /\ Len(strokes) = 1
        /\ Len(strokes[1]) >= 1
        /\ \A k \in 1..(Len(strokes[1]) - 1) :
              Less(strokes[1][k].x, strokes[1][k + 1].x)

\* C13 as amended: for a simple closed polygon the stroke is a non-empty
\* sequence of the polygon's vertices whose first point has the least and
\* whose last point has the greatest rounded x of all vertices.
C13_StrokeSpansLeftToRight ==
    (pc = "generated" /\ Len(layerClip) = 1 /\ Simple(layerClip[1].segments)) =>
        /\ Len(strokes) = 1
        /\ Len(strokes[1]) >= 1
        /\ \A k \in 1..Len(strokes[1]) :
              \E i \in 1..Len(layerClip[1].segments) :
                  strokes[1][k] = layerClip[1].segments[i]
        /\ \A i \in 1..Len(layerClip[1].segments) :
              /\ Leq(round(strokes[1][1].x), round(layerClip[1].segments[i].x))
              /\ Leq(round(layerClip[1].segments[i].x),
                     round(strokes[1][Len(strokes[1])].x))

\* a simple polygon whose stroke keeps a vertical edge has been drawn
C13_Witness ==
    /\ pc = "generated"
    /\ Len(layerClip) = 1
    /\ Simple(layerClip[1].segments)
    /\ Len(strokes) = 1
    /\ \E k \in 1..(Len(strokes[1]) - 1) :
          /\ strokes[1][k].x = strokes[1][k + 1].x
          /\ Less(round(strokes[1][1].x), round(strokes[1][k].x))
          /\ Less(round(strokes[1][k].x), round(strokes[1][Len(strokes[1])].x))

\* the vertex list with its seam moved a vertices on
Reseam(segs, a) == [i \in 1..Len(segs) |-> segs[((i - 1 + a) % Len(segs)) + 1]]

\* every seam position of the list as given and of the reversed list yields
\* the stroke of the list as given
SameStrokeEitherWay(segs) ==
    \E st \in {paperGetStroke(PathOf(segs))} :
        \A a \in 0..(Len(segs) - 1) :
            /\ paperGetStroke(PathOf(Reseam(segs, a))) = st
            /\ paperGetStroke(PathOf(Reseam(Reverse(segs), a))) = st

\* the list has one winding and its reverse the other
HasWinding(segs) == Len(segs) >= 1 /\ AreaFrom(segs, 1) # Int2Num(0)

\* C14 as stated: the clockwise list of a shape and its reversed,
\* counter-clockwise list, with any start vertex in either, yield the same
\* stroke.
C14_WindingIndependent ==
    (pc = "generated" /\ Len(layerClip) = 1 /\ HasWinding(layerClip[1].segments)) =>
        /\ strokes = <<paperGetStroke(layerClip[1])>>
        /\ SameStrokeEitherWay(layerClip[1].segments)

\* only one vertex is leftmost and only one is rightmost after rounding
UniqueEnds(segs) ==
    /\ \A i, j \in 1..Len(segs) :
          (IsLeftmost(segs, i) /\ IsLeftmost(segs, j)) => i = j
    /\ \A i, j \in 1..Len(segs) :
          (IsRightmost(segs, i) /\ IsRightmost(segs, j)) => i = j

\* C14 as amended: the same, for shapes in which a single vertex is L and a
\* single vertex is R after rounding to 2 decimals.
C14_WindingIndependentUniqueEnds ==
    (/\ pc = "generated"
     /\ Len(layerClip) = 1
     /\ HasWinding(layerClip[1].segments)
     /\ UniqueEnds(layerClip[1].segments)) =>
        /\ strokes = <<paperGetStroke(layerClip[1])>>
        /\ SameStrokeEitherWay(layerClip[1].segments)

\* a counter-clockwise list of 4 vertices with its seam between L and R has
\* been drawn
C14_Witness ==
    /\ pc = "generated"
    /\ Len(layerClip) = 1
    /\ Len(layerClip[1].segments) = 4
    /\ HasWinding(layerClip[1].segments)
    /\ UniqueEnds(layerClip[1].segments)
    /\ ~layerClip[1].clockwise
    /\ LIndex(layerClip[1].segments) < RIndex(layerClip[1].segments)
    /\ Len(strokes) = 1
    /\ Len(strokes[1]) = 3

----------------------------------------------------------------------------
(* Claims about the lakeFlatness loop *)

\* points a..b of the measured boundary are a run of at least 3 points whose
\* consecutive y differences are all below lakeFlatness * oneMeter
FlatRun(sd, a, b) ==
    /\ b >= a + 2
    /\ \A k \in (a + 1)..b :
          Less(MathAbs(Sub(sd[k].y, sd[k - 1].y)),
               Mul(Int2Num(opts.lakeFlatness), oneMeter))

\* x lies in the x-range spanned by points a..b
InSpan(sd, a, b, x) ==
    /\ \E k \in a..b : Leq(sd[k].x, x)
    /\ \E k \in a..b : Leq(x, sd[k].x)

\* the slice of removals j, j+1 covers x
InSlice(rem, j, x) ==
    /\ Leq(RMin(rem[j].x, rem[j + 1].x), x)
    /\ Leq(x, RMax(rem[j].x, rem[j + 1].x))

\* the lakeFlatness loop has measured and cut a region
Flattened ==
    /\ pc \in {"stroke", "generated"}
    /\ opts.lakeFlatness > 0
    /\ Len(segmentDiff) > 0
    /\ Len(layerLakeFlatness) > 0

RECURSIVE PartDiffs(_, _)
PartDiffs(children, k) ==
    IF k > Len(children) THEN <<>>
    ELSE SegmentDiff(paperGetStroke(children[k]), opts.lakeFlatness, oneMeter)
         \o PartDiffs(children, k + 1)

\* both ends of the slice of removals j, j+1 are boundary points of one part
SliceInOnePart(children, rem, j) ==
    \E k \in 1..Len(children) :
        \E st \in {paperGetStroke(children[k])} :
            /\ \E i \in 1..Len(st) : st[i].x = rem[j].x /\ st[i].y = rem[j].y
            /\ \E i \in 1..Len(st) : st[i].x = rem[j + 1].x /\ st[i].y = rem[j + 1].y

\* C16: for a compound region the differences, flat marks and runs are those
\* of each part's top boundary taken on its own, and no removal slice reaches
\* from one part into the next.
C16_PartsFlattenedIndependently ==
    (Flattened /\ layerClip[Len(layerClip)].className = "CompoundPath") =>
        /\ segmentDiff = PartDiffs(layerClip[Len(layerClip)].children, 1)
        /\ \A j \in 1..Len(removals) :
              j % 2 = 1 =>
                  SliceInOnePart(layerClip[Len(layerClip)].children, removals, j)

----------------------------------------------------------------------------
(* Claims about the scene *)

\* C17: whatever the interleaving of generate and save on instances A and B,
\* what an instance's save writes is the scene of that instance's own most
\* recent generate, never a scene another instance generated.
C17_SaveWritesOwnScene ==
    \A i \in Instances :
        written[i] # NoScene =>
            /\ written[i].owner = i
            /\ written[i].run <= generated[i]

====
